---- MODULE Spec2Model ----
(***************************************************************************)
(* Image load pipeline of image/tarexport (Load, loadSquashFS,             *)
(* legacyLoad, legacyLoadImage, validatedParentLinks, checkValidParent)    *)
(* against the layer store, the image store and the tag store.             *)
(*                                                                         *)
(* Digests are natural numbers; 0 is the empty digest "".                  *)
(***************************************************************************)
EXTENDS Naturals, Sequences, FiniteSets, TLC

\* ------------------------------------------------------------------ bounds
MaxDiff == 2        \* distinct layer contents (DiffIDs 1..MaxDiff)
MaxLayers == 2      \* layers per image config
MaxHist == 0        \* history entries per manifest image config
MaxParentHist == 2  \* history entries per image in the parent-commit phase
MaxItems == 2       \* manifest items read in one behaviour
MaxLoads == 2       \* Load calls in one behaviour
MaxTags == 1        \* repo tags per manifest item
MaxLinks == 3       \* parent links per batch (validator on its own)
MaxLinkID == 4      \* image ids per batch (validator on its own)
MaxDirs == 3        \* directories of a legacy archive
MaxBlobs == 2       \* distinct single-blob streams
MaxStream == 5      \* bytes of an input stream (archive intake)
MaxRead == 3        \* length of the slice handed to one Read call
MaxStatus == 2      \* status pairs the graph driver reports

NoDigest == 0
DiffIDs == 1..MaxDiff
HistVals == 1..1
Tags == 1..1
InvalidTag == 0

\* ------------------------------------------------------------------ helpers
RECURSIVE SeqsUpTo(_, _)
SeqsUpTo(S, n) ==
    IF n = 0 THEN {<<>>}
    ELSE LET shorter == SeqsUpTo(S, n - 1)
         IN  shorter \cup {Append(s, x) : s \in {t \in shorter : Len(t) = n - 1}, x \in S}

Front(s) == SubSeq(s, 1, Len(s) - 1)
Last(s) == s[Len(s)]

RECURSIVE Pow(_, _)
Pow(b, n) == IF n = 0 THEN 1 ELSE b * Pow(b, n - 1)

Max(a, b) == IF a >= b THEN a ELSE b

RECURSIVE EncSeq(_, _)
EncSeq(s, b) == IF s = <<>> THEN 0 ELSE EncSeq(Front(s), b) * b + (Last(s) + 1)

\* ------------------------------------------------------------------ content addressing
ChainBase == MaxDiff + MaxBlobs + 1
HashChain(parent, d) == (parent + 1) * ChainBase + d

RECURSIVE CreateChainID(_)
CreateChainID(dgsts) ==
    IF dgsts = <<>> THEN NoDigest
    ELSE IF Len(dgsts) = 1 THEN dgsts[1]
    ELSE HashChain(CreateChainID(Front(dgsts)), Last(dgsts))

\* chain identity of a layer registered on top of parent chain `parent`
RegisteredChain(parent, d) == IF parent = NoDigest THEN d ELSE HashChain(parent, d)

DiffBase == MaxDiff + MaxBlobs + 2
HistBase == Max(1, MaxDirs) + 2
HistSpan == Pow(HistBase, Max(MaxHist, MaxDirs) + 1)
\* image id: digest of the config
ImageDigest(c) == 1 + EncSeq(c.diffIDs, DiffBase) * HistSpan + EncSeq(c.history, HistBase)

Configs == [diffIDs : SeqsUpTo(DiffIDs, MaxLayers), history : SeqsUpTo(HistVals, MaxHist)]
ConfigIDs == {ImageDigest(c) : c \in Configs}

\* ------------------------------------------------------------------ validatedParentLinks
validatedParentLinksKeepAll(links) == links

validatedParentLinksDropSelfCheck(links) ==
    [i \in 1..Len(links) |->
        IF \E j \in 1..Len(links) : links[j].id = links[i].parentID
        THEN links[i]
        ELSE [links[i] EXCEPT !.parentID = NoDigest]]

validatedParentLinksReversed(links) ==
    [i \in 1..Len(links) |->
        LET l == links[Len(links) + 1 - i]
        IN  IF \E j \in 1..Len(links) : links[j].id = l.parentID /\ links[j].id # l.id
            THEN l
            ELSE [l EXCEPT !.parentID = NoDigest]]

validatedParentLinks(links) ==
    [i \in 1..Len(links) |->
        IF \E j \in 1..Len(links) : links[j].id = links[i].parentID /\ links[j].id # links[i].id
        THEN links[i]
        ELSE [links[i] EXCEPT !.parentID = NoDigest]]

checkValidParentByLength(child, parent) ==
    IF Len(child.history) = 0 /\ Len(parent.history) = 0 THEN TRUE
    ELSE Len(child.history) = Len(parent.history) + 1

checkValidParent(child, parent) ==
    IF Len(child.history) = 0 /\ Len(parent.history) = 0 THEN TRUE
    ELSE IF Len(child.history) # Len(parent.history) + 1 THEN FALSE
    ELSE \A i \in 1..Len(parent.history) : parent.history[i] = child.history[i]

\* ------------------------------------------------------------------ state
VARIABLES
    pc,             \* position of the running Load call
    result,         \* "none" while running, then "ok" (nil) or "err"
    tmpDir,         \* the scratch directory of the last Load call exists
    loads,          \* Load calls started so far
    ls,             \* layer store: ChainID -> [diffID, parent, refs]
    is,             \* image store: image id -> [diffIDs, history, parent]
    rs,             \* tag store: reference -> image id
    out,            \* lines written to outStream by the running call
    held,           \* layer references obtained by the running call and not released
    regCalls,       \* Register calls made by the running call
    errSeen,        \* a collaborator returned an error to the running call
    spLog,          \* SetParent calls that succeeded in the running call
    created,        \* image ids returned by is.Create in the running call, in order
    callItems,      \* manifest items read by the running call
    mismatch,       \* a layer obtained by the running call reported another DiffID than claimed
    layerCountBad,  \* the running call read an item whose layer paths and DiffIDs differ in number
    itemsRead,      \* manifest items read so far, over all calls
    tagsSet,        \* repo tags processed by the running call, over all its items
    img,            \* config of the manifest item being processed
    rootFS,         \* DiffIDs appended to rootFS so far
    deferred,       \* layers whose release is deferred to the return of Load
    ti,             \* repo tags of the item already processed
    imgID,          \* id returned by is.Create for the item
    parentLinks,    \* parentLinks
    validated,      \* validatedParentLinks(parentLinks), being ranged over
    pi,             \* validated links already processed
    imageIDsStr,    \* image ids of the accumulated "Loaded image ID" lines
    imageRefCount,  \* imageRefCount
    pl,             \* validator on its own: the input batch
    ret,            \* validator on its own: the returned batch
    archive,        \* legacy archive: directory (legacy id) -> the Parent of its json
    toVisit,        \* directories legacyLoad has not come to yet
    enumOrder,      \* directories in the order legacyLoad came to them
    stack,          \* active legacyLoadImage calls, the running one last
    loadedMap,      \* legacyLoadedMap: legacy id -> image id
    legacyCreated,  \* legacy ids with the image ids is.Create returned, in order
    tagTarget,      \* legacy id named by the repositories entry read last (0: none yet)
    blob,           \* single-blob path: hash of the stream being loaded
    tmpBlob,        \* a temporary import file is left in <root>/squashfs
    blobDir,        \* storage keys that have a blob file in <root>/squashfs
    squashLayer,    \* single-blob path: newLayer
    renamed,        \* the running call renamed its temporary file to the storage key
    driverStatus,   \* l.ls.Driver().Status() as the last single-blob call read it
    stream,         \* archive intake: the bytes inTar delivers, from byte 0
    srcPos,         \* bytes the bufio.Reader has taken from inTar
    buf,            \* bytes the bufio.Reader holds and has not handed out
    got,            \* bytes returned by the Read calls on the bufferedReadCloser, in order
    route           \* what Load did after the peek: "none", "error", "single-blob", "structured"

storeVars == <<ls, is, rs>>
callVars == <<pc, result, tmpDir, loads, out, held, regCalls, errSeen, spLog, created, callItems,
              mismatch, layerCountBad>>
manifestVars == <<itemsRead, tagsSet, img, rootFS, deferred, ti, imgID, parentLinks,
                  validated, pi, imageIDsStr, imageRefCount>>
linkVars == <<pl, ret>>
legacyVars == <<archive, toVisit, enumOrder, stack, loadedMap, legacyCreated, tagTarget>>
squashVars == <<blob, tmpBlob, blobDir, squashLayer, renamed, driverStatus>>
intakeVars == <<stream, srcPos, buf, got, route>>
vars == <<storeVars, callVars, manifestVars, linkVars, legacyVars, squashVars, intakeVars>>

NoConfig == [diffIDs |-> <<>>, history |-> <<>>]
EmptyFn == [x \in {} |-> 0]

InitStores == ls = EmptyFn /\ is = EmptyFn /\ rs = EmptyFn
InitCall(at) ==
    /\ pc = at /\ result = "none" /\ tmpDir = (at = "peek") /\ loads = 0 /\ out = <<>>
    /\ held = <<>> /\ regCalls = 0 /\ errSeen = FALSE /\ spLog = <<>> /\ created = <<>>
    /\ callItems = 0 /\ mismatch = FALSE /\ layerCountBad = FALSE
InitManifest ==
    /\ itemsRead = 0 /\ tagsSet = 0 /\ img = NoConfig /\ rootFS = <<>> /\ deferred = <<>>
    /\ ti = 0 /\ imgID = NoDigest /\ parentLinks = <<>> /\ validated = <<>> /\ pi = 0
    /\ imageIDsStr = <<>> /\ imageRefCount = 0
InitLinks == pl = <<>> /\ ret = <<>>
InitLegacy ==
    /\ archive = EmptyFn /\ toVisit = {} /\ enumOrder = <<>> /\ stack = <<>>
    /\ loadedMap = EmptyFn /\ legacyCreated = <<>> /\ tagTarget = NoDigest
InitSquash ==
    /\ blob = 0 /\ tmpBlob = FALSE /\ blobDir = {} /\ squashLayer = NoDigest
    /\ renamed = FALSE /\ driverStatus = <<>>
InitIntake ==
    /\ stream = <<>> /\ srcPos = 0 /\ buf = <<>> /\ got = <<>> /\ route = "none"

\* ------------------------------------------------------------------ stores
\* ls.Get / an existing layer returned by Register: one more reference
Retain(store, chain) == [store EXCEPT ![chain].refs = @ + 1]

\* ls.Release: one reference less
Release(store, chain) == [store EXCEPT ![chain].refs = @ - 1]

RECURSIVE ReleaseAll(_, _)
ReleaseAll(store, chains) ==
    IF chains = <<>> THEN store
    ELSE ReleaseAll(Release(store, Last(chains)), Front(chains))

\* ls.Register(content hashing to d, parent chain)
Register(store, parent, d) ==
    LET c == RegisteredChain(parent, d)
    IN  IF c \in DOMAIN store THEN Retain(store, c)
        ELSE [x \in DOMAIN store \cup {c} |->
                IF x = c THEN [diffID |-> d, parent |-> parent, refs |-> 1] ELSE store[x]]

\* is.Create(config)
Create(store, c) ==
    LET id == ImageDigest(c)
    IN  IF id \in DOMAIN store THEN store
        ELSE [x \in DOMAIN store \cup {id} |->
                IF x = id THEN [diffIDs |-> c.diffIDs, history |-> c.history, parent |-> NoDigest]
                ELSE store[x]]

\* rs.AddTag(ref, id, force)
AddTag(store, ref, id) ==
    [x \in DOMAIN store \cup {ref} |-> IF x = ref THEN id ELSE store[x]]

RECURSIVE RemoveOne(_, _)
RemoveOne(s, x) ==
    IF s = <<>> THEN <<>>
    ELSE IF Last(s) = x THEN Front(s)
    ELSE Append(RemoveOne(Front(s), x), Last(s))

RECURSIVE RemoveAll(_, _)
RemoveAll(s, xs) == IF xs = <<>> THEN s ELSE RemoveAll(RemoveOne(s, Last(xs)), Front(xs))

\* ls.Get(chain) finds a layer
LayerGetNever(store, chain) == FALSE
LayerGet(store, chain) == chain \in DOMAIN store

\* the comparison of the claimed DiffID with newLayer.DiffID()
DiffIDMatchesAlways(expected, actual) == TRUE
DiffIDMatches(expected, actual) == expected = actual

\* the comparison of len(m.Layers) with len(img.RootFS.DiffIDs)
LayerCountMatchesAlways(expected, actual) == TRUE
LayerCountMatches(expected, actual) == expected = actual

IDLines(ids) == [i \in 1..Len(ids) |-> <<"Loaded image ID", ids[i]>>]

\* ------------------------------------------------------------------ Load, manifest path
Returned == pc = "done"

\* os.RemoveAll(tmpDir), deferred once ioutil.TempDir has succeeded
RemoveScratchSkipped(exists) == exists
RemoveScratch(exists) == FALSE

\* what can fail in Load before a loader runs: ioutil.TempDir; the peek or Untar;
\* opening or decoding the manifest (reading the directory, in the legacy loader)
LoadFailures == {"none", "tempdir", "unpack", "open"}

\* the scratch directory after the first steps of Load
ScratchAfterStart(fail) ==
    IF fail = "none" THEN TRUE
    ELSE IF fail = "tempdir" THEN FALSE
    ELSE RemoveScratch(TRUE)

\* a return of Load: the deferred layer.ReleaseAndLog calls run, the locals are gone
ReturnLoad(res, store, dfr, hld) ==
    /\ pc' = "done"
    /\ result' = res
    /\ tmpDir' = RemoveScratch(tmpDir)
    /\ ls' = ReleaseAll(store, dfr)
    /\ held' = RemoveAll(hld, dfr)
    /\ deferred' = <<>>
    /\ img' = NoConfig /\ rootFS' = <<>> /\ ti' = 0 /\ imgID' = NoDigest
    /\ validated' = <<>> /\ pi' = 0

\* Load up to the decoded manifest
LoadManifest(fail) ==
    /\ pc \in {"idle", "done"}
    /\ loads < MaxLoads
    /\ loads' = loads + 1
    /\ pc' = IF fail = "none" THEN "item" ELSE "done"
    /\ result' = IF fail = "none" THEN "none" ELSE "err"
    /\ tmpDir' = ScratchAfterStart(fail)
    /\ out' = <<>> /\ held' = <<>> /\ regCalls' = 0 /\ errSeen' = FALSE /\ spLog' = <<>>
    /\ created' = <<>> /\ callItems' = 0 /\ mismatch' = FALSE /\ layerCountBad' = FALSE
    /\ tagsSet' = 0 /\ img' = NoConfig /\ rootFS' = <<>> /\ deferred' = <<>>
    /\ ti' = 0 /\ imgID' = NoDigest /\ parentLinks' = <<>> /\ validated' = <<>> /\ pi' = 0
    /\ imageIDsStr' = <<>> /\ imageRefCount' = 0
    /\ UNCHANGED <<storeVars, itemsRead, linkVars, intakeVars, legacyVars, squashVars>>

\* head of the loop over the manifest: config read and parsed, layer count checked
ManifestItem(nLayers, config, readOK) ==
    /\ pc = "item"
    /\ itemsRead < MaxItems
    /\ itemsRead' = itemsRead + 1
    /\ callItems' = callItems + 1
    /\ layerCountBad' = (layerCountBad \/ (readOK /\ nLayers # Len(config.diffIDs)))
    /\ IF ~readOK \/ ~LayerCountMatches(nLayers, Len(config.diffIDs))
       THEN ReturnLoad("err", ls, deferred, held)
       ELSE /\ img' = config
            /\ rootFS' = <<>>
            /\ pc' = IF Len(config.diffIDs) = 0 THEN "create" ELSE "layer"
            /\ UNCHANGED <<result, tmpDir, ls, held, deferred, ti, imgID, validated, pi>>
    /\ UNCHANGED <<loads, is, rs, out, regCalls, errSeen, spLog, created, mismatch, tagsSet,
                   parentLinks, imageIDsStr, imageRefCount, linkVars, intakeVars, legacyVars, squashVars>>

\* one layer position: Get by ChainID or loadLayer, deferred release, DiffID check
ManifestLayer(actual, pathOK, regOK) ==
    /\ pc = "layer"
    /\ LET diffID == img.diffIDs[Len(rootFS) + 1]
           chain == CreateChainID(Append(rootFS, diffID))
           found == LayerGet(ls, chain)
           parent == CreateChainID(rootFS)
           newLayer == IF found THEN chain ELSE RegisteredChain(parent, actual)
           store == IF found THEN Retain(ls, chain) ELSE Register(ls, parent, actual)
       IN  IF ~pathOK \/ (~found /\ ~regOK)
           THEN /\ ReturnLoad("err", ls, deferred, held)
                /\ errSeen' = (errSeen \/ pathOK)
                /\ regCalls' = IF pathOK THEN regCalls + 1 ELSE regCalls
                /\ UNCHANGED mismatch
           ELSE /\ regCalls' = IF found THEN regCalls ELSE regCalls + 1
                /\ mismatch' = (mismatch \/ store[newLayer].diffID # diffID)
                /\ UNCHANGED errSeen
                /\ IF ~DiffIDMatches(diffID, store[newLayer].diffID)
                   THEN ReturnLoad("err", store, Append(deferred, newLayer),
                                   Append(held, newLayer))
                   ELSE /\ ls' = store
                        /\ held' = Append(held, newLayer)
                        /\ deferred' = Append(deferred, newLayer)
                        /\ rootFS' = Append(rootFS, diffID)
                        /\ pc' = IF Len(rootFS) + 1 = Len(img.diffIDs) THEN "create" ELSE "layer"
                        /\ UNCHANGED <<result, tmpDir, img, ti, imgID, validated, pi>>
    /\ UNCHANGED <<loads, is, rs, out, spLog, created, callItems, layerCountBad, itemsRead,
                   tagsSet, parentLinks, imageIDsStr, imageRefCount, linkVars, intakeVars, legacyVars,
                   squashVars>>

\* is.Create and the accumulated "Loaded image ID" line
ManifestCreate(createOK) ==
    /\ pc = "create"
    /\ IF ~createOK
       THEN /\ ReturnLoad("err", ls, deferred, held)
            /\ errSeen' = TRUE
            /\ UNCHANGED <<is, created, imageIDsStr, imageRefCount>>
       ELSE /\ is' = Create(is, img)
            /\ imgID' = ImageDigest(img)
            /\ created' = Append(created, ImageDigest(img))
            /\ imageIDsStr' = Append(imageIDsStr, ImageDigest(img))
            /\ imageRefCount' = 0
            /\ ti' = 0
            /\ pc' = "tag"
            /\ UNCHANGED <<result, tmpDir, ls, held, deferred, errSeen, img, rootFS, validated, pi>>
    /\ UNCHANGED <<loads, rs, out, regCalls, spLog, callItems, mismatch, layerCountBad, itemsRead, tagsSet,
                   parentLinks, linkVars, intakeVars, legacyVars, squashVars>>

\* one repo tag of the item: parse, setLoadedTag, "Loaded image" line
ManifestTag(repoTag, addOK) ==
    /\ pc = "tag"
    /\ ti < MaxTags
    /\ LET warned == IF repoTag \in DOMAIN rs /\ rs[repoTag] # imgID
                     THEN Append(out, <<"already exists", repoTag>>) ELSE out
       IN  IF repoTag = InvalidTag
           THEN /\ ReturnLoad("err", ls, deferred, held)
                /\ UNCHANGED <<rs, out, errSeen, imageRefCount, tagsSet>>
           ELSE /\ rs' = IF addOK THEN AddTag(rs, repoTag, imgID) ELSE rs
                /\ errSeen' = (errSeen \/ ~addOK)
                /\ out' = Append(warned, <<"Loaded image", repoTag>>)
                /\ imageRefCount' = imageRefCount + 1
                /\ tagsSet' = tagsSet + 1
                /\ ti' = ti + 1
                /\ UNCHANGED <<pc, result, tmpDir, ls, held, deferred, img, rootFS, imgID, validated, pi>>
    /\ UNCHANGED <<loads, is, regCalls, spLog, created, callItems, mismatch, layerCountBad, itemsRead,
                   parentLinks, imageIDsStr, linkVars, intakeVars, legacyVars, squashVars>>

\* end of the loop body: the item's parent link is recorded
ManifestItemEnd(parent) ==
    /\ pc = "tag"
    /\ parentLinks' = Append(parentLinks, [id |-> imgID, parentID |-> parent])
    /\ pc' = "item"
    /\ UNCHANGED <<storeVars, result, tmpDir, loads, out, held, regCalls, errSeen, spLog, created,
                   callItems, mismatch, layerCountBad, itemsRead, tagsSet, img, rootFS, deferred, ti, imgID,
                   validated, pi,
                   imageIDsStr, imageRefCount, linkVars, intakeVars, legacyVars, squashVars>>

\* the manifest is exhausted: the validator runs over the batch
ManifestValidate ==
    /\ pc = "item"
    /\ validated' = validatedParentLinks(parentLinks)
    /\ pi' = 0
    /\ pc' = "parents"
    /\ UNCHANGED <<storeVars, result, tmpDir, loads, out, held, regCalls, errSeen, spLog, created,
                   callItems, mismatch, layerCountBad, itemsRead, tagsSet, img, rootFS, deferred, ti, imgID,
                   parentLinks,
                   imageIDsStr, imageRefCount, linkVars, intakeVars, legacyVars, squashVars>>

\* setParentID(id, parentID) up to the SetParent call
SetParentIDOK(store, id, parentID) ==
    /\ id \in DOMAIN store
    /\ parentID \in DOMAIN store
    /\ checkValidParent(store[id], store[parentID])

\* one validated link: setParentID when its parent survived
ManifestSetParent(setOK) ==
    /\ pc = "parents"
    /\ pi < Len(validated)
    /\ LET p == validated[pi + 1]
       IN  IF p.parentID = NoDigest
           THEN /\ pi' = pi + 1
                /\ UNCHANGED <<pc, result, tmpDir, ls, is, held, deferred, errSeen, spLog, img,
                               rootFS, ti, imgID, validated>>
           ELSE IF ~SetParentIDOK(is, p.id, p.parentID) \/ ~setOK
           THEN /\ ReturnLoad("err", ls, deferred, held)
                /\ errSeen' = (errSeen \/ SetParentIDOK(is, p.id, p.parentID))
                /\ UNCHANGED <<is, spLog>>
           ELSE /\ is' = [is EXCEPT ![p.id].parent = p.parentID]
                /\ spLog' = Append(spLog, [item |-> pi + 1, id |-> p.id, parentID |-> p.parentID])
                /\ pi' = pi + 1
                /\ UNCHANGED <<pc, result, tmpDir, ls, held, deferred, errSeen, img, rootFS, ti,
                               imgID, validated>>
    /\ UNCHANGED <<loads, rs, out, regCalls, created, callItems, mismatch, layerCountBad, itemsRead, tagsSet,
                   parentLinks, imageIDsStr, imageRefCount, linkVars, intakeVars, legacyVars, squashVars>>

\* the "Loaded image ID" lines, and return nil
ManifestFinish ==
    /\ pc = "parents"
    /\ pi = Len(validated)
    /\ out' = IF imageRefCount = 0 THEN out \o IDLines(imageIDsStr) ELSE out
    /\ ReturnLoad("ok", ls, deferred, held)
    /\ UNCHANGED <<loads, is, rs, regCalls, errSeen, spLog, created, callItems, mismatch, layerCountBad,
                   itemsRead, tagsSet, parentLinks, imageIDsStr, imageRefCount, linkVars, intakeVars, legacyVars, squashVars>>

Init ==
    /\ InitStores /\ InitCall("idle") /\ InitManifest /\ InitLinks /\ InitLegacy /\ InitSquash
    /\ InitIntake

Next ==
    \/ \E fail \in LoadFailures : LoadManifest(fail)
    \/ \E nLayers \in 0..MaxLayers, config \in Configs, readOK \in BOOLEAN :
          ManifestItem(nLayers, config, readOK)
    \/ \E actual \in DiffIDs, pathOK \in BOOLEAN, regOK \in BOOLEAN :
          ManifestLayer(actual, pathOK, regOK)
    \/ \E createOK \in BOOLEAN : ManifestCreate(createOK)
    \/ \E repoTag \in Tags \cup {InvalidTag}, addOK \in BOOLEAN : ManifestTag(repoTag, addOK)
    \/ \E parent \in {NoDigest} \cup ConfigIDs : ManifestItemEnd(parent)
    \/ ManifestValidate
    \/ \E setOK \in BOOLEAN : ManifestSetParent(setOK)
    \/ ManifestFinish

Spec == Init /\ [][Next]_vars

\* ------------------------------------------------------------------ parent commit with histories
\* image configs without layers whose histories are built from two different entries
HistoryEntries == {1, 2}
HistoryConfigs == [diffIDs : {<<>>}, history : SeqsUpTo(HistoryEntries, MaxParentHist)]

RECURSIVE CreateAll(_, _)
CreateAll(store, cfgs) ==
    IF cfgs = <<>> THEN store ELSE Create(CreateAll(store, Front(cfgs)), Last(cfgs))

\* Load after its loop over a manifest of MaxItems items without layers and tags: every
\* image record is created, every parent link recorded, the validator has run
InitParents ==
    /\ \E cfgs \in [1..MaxItems -> HistoryConfigs], parents \in [1..MaxItems -> 0..MaxItems] :
          LET ids == [i \in 1..MaxItems |-> ImageDigest(cfgs[i])]
              links == [i \in 1..MaxItems |->
                          [id |-> ids[i],
                           parentID |-> IF parents[i] = 0 THEN NoDigest ELSE ids[parents[i]]]]
          IN  /\ ls = EmptyFn /\ rs = EmptyFn
              /\ is = CreateAll(EmptyFn, cfgs)
              /\ created = ids
              /\ imageIDsStr = ids
              /\ parentLinks = links
              /\ validated = validatedParentLinks(links)
              /\ img = cfgs[MaxItems]
              /\ imgID = ids[MaxItems]
    /\ pc = "parents" /\ result = "none" /\ tmpDir = TRUE /\ loads = 1 /\ out = <<>>
    /\ held = <<>> /\ regCalls = 0 /\ errSeen = FALSE /\ spLog = <<>>
    /\ callItems = MaxItems /\ mismatch = FALSE /\ layerCountBad = FALSE
    /\ itemsRead = MaxItems /\ tagsSet = 0 /\ rootFS = <<>> /\ deferred = <<>>
    /\ ti = 0 /\ pi = 0 /\ imageRefCount = 0
    /\ InitLinks /\ InitLegacy /\ InitSquash /\ InitIntake

NextParents ==
    \/ \E setOK \in BOOLEAN : ManifestSetParent(setOK)
    \/ ManifestFinish

SpecParents == InitParents /\ [][NextParents]_vars

\* ------------------------------------------------------------------ validator on its own
LinkBatches ==
    SeqsUpTo([id : 1..MaxLinkID, parentID : {NoDigest} \cup (1..MaxLinkID)], MaxLinks)

InitLinkBatch ==
    /\ InitStores /\ InitCall("links") /\ InitManifest /\ InitLegacy /\ InitSquash
    /\ InitIntake
    /\ pl \in LinkBatches
    /\ ret = <<>>

ValidateLinks ==
    /\ pc = "links"
    /\ ret' = validatedParentLinks(pl)
    /\ pc' = "linked"
    /\ UNCHANGED <<storeVars, result, tmpDir, loads, out, held, regCalls, errSeen, spLog, created,
                   callItems, mismatch, layerCountBad, manifestVars, pl, legacyVars, squashVars,
                   intakeVars>>

NextLinks == ValidateLinks

SpecLinks == InitLinkBatch /\ [][NextLinks]_vars

\* ------------------------------------------------------------------ Load, legacy path
\* a legacy archive: directories 1..n, each json naming a parent ("" is 0); a parent
\* beyond n names a directory the archive does not hold
LegacyArchives == UNION {[1..n -> 0..(MaxDirs + 1)] : n \in 1..MaxDirs}

\* call depth at which the runtime ends the process; deeper than any acyclic archive
StackLimit == MaxDirs + 2

Top == stack[Len(stack)]
SetTop(at) == [stack EXCEPT ![Len(stack)].at = at]

\* v1.HistoryFromConfig(imageJSON): the entry derived from the directory's json
HistoryFromConfig(oldID) == oldID

\* rootFS and history a legacy image starts from: its parent's, or empty
LegacyBaseEmpty(store, parentID) == NoConfig
LegacyBase(store, parentID) ==
    IF parentID = NoDigest THEN NoConfig
    ELSE [diffIDs |-> store[parentID].diffIDs, history |-> store[parentID].history]

\* the memo check at the head of legacyLoadImage: oldID is a key of the id map
AlreadyLoadedNever(map, oldID) == FALSE
AlreadyLoaded(map, oldID) == oldID \in DOMAIN map

\* legacyLoad / legacyLoadImage return an error: every active call returns it
ReturnLegacyErr ==
    /\ pc' = "done"
    /\ result' = "err"
    /\ tmpDir' = RemoveScratch(tmpDir)
    /\ stack' = <<>>

\* the running legacyLoadImage call returns nil to its caller
ReturnLegacyNil ==
    /\ stack' = Front(stack)
    /\ pc' = IF Len(stack) = 1 THEN "legacy_dirs" ELSE "legacy_image"
    /\ UNCHANGED <<result, tmpDir>>

\* Load finds no manifest file and calls legacyLoad, which reads the directory
LoadLegacy(arch, fail) ==
    /\ pc = "idle"
    /\ loads < MaxLoads
    /\ loads' = loads + 1
    /\ pc' = IF fail = "none" THEN "legacy_dirs" ELSE "done"
    /\ result' = IF fail = "none" THEN "none" ELSE "err"
    /\ tmpDir' = ScratchAfterStart(fail)
    /\ out' = <<>> /\ held' = <<>> /\ regCalls' = 0 /\ errSeen' = FALSE /\ spLog' = <<>>
    /\ created' = <<>> /\ callItems' = 0 /\ mismatch' = FALSE /\ layerCountBad' = FALSE
    /\ archive' = arch
    /\ toVisit' = DOMAIN arch
    /\ enumOrder' = <<>>
    /\ stack' = <<>>
    /\ loadedMap' = EmptyFn
    /\ legacyCreated' = <<>>
    /\ tagTarget' = NoDigest
    /\ UNCHANGED <<storeVars, manifestVars, linkVars, intakeVars, squashVars>>

\* the loop over the directories calls legacyLoadImage for the next one
LegacyNextDir(d) ==
    /\ pc = "legacy_dirs"
    /\ d \in toVisit
    /\ toVisit' = toVisit \ {d}
    /\ enumOrder' = Append(enumOrder, d)
    /\ stack' = <<[oldID |-> d, at |-> "entry"]>>
    /\ pc' = "legacy_image"
    /\ UNCHANGED <<storeVars, result, tmpDir, loads, out, held, regCalls, errSeen, spLog, created,
                   callItems, mismatch, layerCountBad, manifestVars, linkVars, intakeVars, archive, tagTarget, loadedMap,
                   legacyCreated, squashVars>>

\* legacyLoadImage from its entry to the parent loop: memo check, json read and parsed
LegacyEntry ==
    /\ pc = "legacy_image"
    /\ Top.at = "entry"
    /\ IF AlreadyLoaded(loadedMap, Top.oldID)
       THEN ReturnLegacyNil
       ELSE IF Top.oldID \notin DOMAIN archive
       THEN ReturnLegacyErr
       ELSE /\ stack' = SetTop(IF archive[Top.oldID] = NoDigest THEN "build" ELSE "loop")
            /\ UNCHANGED <<pc, result, tmpDir>>
    /\ UNCHANGED <<storeVars, loads, out, held, regCalls, errSeen, spLog, created, callItems,
                   mismatch, layerCountBad, manifestVars, linkVars, intakeVars, archive, tagTarget, toVisit, enumOrder, loadedMap,
                   legacyCreated, squashVars>>

\* one turn of the parent loop: the parent is in the map, or legacyLoadImage(parent)
LegacyLoop ==
    /\ pc = "legacy_image"
    /\ Top.at = "loop"
    /\ IF archive[Top.oldID] \in DOMAIN loadedMap
       THEN /\ stack' = SetTop("build")
            /\ UNCHANGED pc
       ELSE IF Len(stack) >= StackLimit
       THEN /\ pc' = "crashed"
            /\ UNCHANGED stack
       ELSE /\ stack' = Append(stack, [oldID |-> archive[Top.oldID], at |-> "entry"])
            /\ UNCHANGED pc
    /\ UNCHANGED <<storeVars, result, tmpDir, loads, out, held, regCalls, errSeen, spLog, created,
                   callItems, mismatch, layerCountBad, manifestVars, linkVars, intakeVars, archive, tagTarget, toVisit, enumOrder,
                   loadedMap, legacyCreated, squashVars>>

LegacyFailures == {"none", "register", "create", "release", "setparent"}

\* legacyLoadImage after the parent loop: layer, image record, release, parent, map
LegacyBuild(actual, fail) ==
    /\ pc = "legacy_image"
    /\ Top.at = "build"
    /\ LET oldID == Top.oldID
           parentID == IF archive[oldID] = NoDigest THEN NoDigest
                       ELSE loadedMap[archive[oldID]]
           base == LegacyBase(is, parentID)
           parentChain == CreateChainID(base.diffIDs)
           newLayer == RegisteredChain(parentChain, actual)
           registered == Register(ls, parentChain, actual)
           config == [diffIDs |-> Append(base.diffIDs, registered[newLayer].diffID),
                      history |-> Append(base.history, HistoryFromConfig(oldID))]
           id == ImageDigest(config)
           withImage == Create(is, config)
       IN  /\ fail = "setparent" => parentID # NoDigest
           /\ errSeen' = (errSeen \/ fail # "none")
           /\ regCalls' = regCalls + 1
           /\ IF parentID # NoDigest /\ parentID \notin DOMAIN is
              THEN /\ ReturnLegacyErr
                   /\ UNCHANGED <<ls, is, held, spLog, created, loadedMap, legacyCreated, squashVars>>
              ELSE IF fail = "register"
              THEN /\ ReturnLegacyErr
                   /\ UNCHANGED <<ls, is, held, spLog, created, loadedMap, legacyCreated, squashVars>>
              ELSE IF fail = "create"
              THEN /\ ReturnLegacyErr
                   /\ ls' = registered
                   /\ held' = Append(held, newLayer)
                   /\ UNCHANGED <<is, spLog, created, loadedMap, legacyCreated, squashVars>>
              ELSE /\ ls' = Release(registered, newLayer)
                   /\ UNCHANGED held
                   /\ created' = Append(created, id)
                   /\ legacyCreated' = Append(legacyCreated, [oldID |-> oldID, id |-> id])
                   /\ IF fail = "release" \/ fail = "setparent"
                      THEN /\ ReturnLegacyErr
                           /\ is' = withImage
                           /\ UNCHANGED <<spLog, loadedMap>>
                      ELSE /\ is' = IF parentID = NoDigest THEN withImage
                                    ELSE [withImage EXCEPT ![id].parent = parentID]
                           /\ spLog' = IF parentID = NoDigest THEN spLog
                                       ELSE Append(spLog, [item |-> oldID, id |-> id,
                                                           parentID |-> parentID])
                           /\ loadedMap' = [x \in DOMAIN loadedMap \cup {oldID} |->
                                              IF x = oldID THEN id ELSE loadedMap[x]]
                           /\ ReturnLegacyNil
    /\ UNCHANGED <<rs, loads, out, callItems, mismatch, layerCountBad, manifestVars, linkVars, intakeVars, archive, tagTarget,
                   toVisit, enumOrder, squashVars>>

\* every directory is done: the repositories file is opened and decoded
LegacyRepositories(openOK) ==
    /\ pc = "legacy_dirs"
    /\ toVisit = {}
    /\ pc' = IF openOK THEN "legacy_tags" ELSE "done"
    /\ result' = IF openOK THEN "none" ELSE "err"
    /\ tmpDir' = IF openOK THEN tmpDir ELSE RemoveScratch(tmpDir)
    /\ UNCHANGED <<storeVars, loads, out, held, regCalls, errSeen, spLog, created, callItems,
                   mismatch, layerCountBad, manifestVars, linkVars, intakeVars, legacyVars, squashVars>>

\* imgID, ok := legacyLoadedMap[oldID]: the image id a tag of the mapping is set to
LegacyTargetAny(map, oldID) == oldID
LegacyTarget(map, oldID) == map[oldID]

\* one tag of the repositories mapping: map lookup, reference, setLoadedTag
LegacyTag(ref, oldID, addOK) ==
    /\ pc = "legacy_tags"
    /\ tagsSet < MaxTags
    /\ IF oldID \notin DOMAIN loadedMap \/ ref = InvalidTag
       THEN /\ pc' = "done"
            /\ result' = "err"
            /\ tmpDir' = RemoveScratch(tmpDir)
            /\ UNCHANGED <<rs, out, errSeen, tagsSet>>
       ELSE /\ out' = IF ref \in DOMAIN rs /\ rs[ref] # LegacyTarget(loadedMap, oldID)
                      THEN Append(out, <<"already exists", ref>>) ELSE out
            /\ rs' = IF addOK THEN AddTag(rs, ref, LegacyTarget(loadedMap, oldID)) ELSE rs
            /\ errSeen' = (errSeen \/ ~addOK)
            /\ tagsSet' = tagsSet + 1
            /\ UNCHANGED <<pc, result, tmpDir>>
    /\ tagTarget' = oldID
    /\ UNCHANGED <<ls, is, loads, held, regCalls, spLog, created, callItems, mismatch, layerCountBad,
                   itemsRead, img, rootFS, deferred, ti, imgID, parentLinks, validated, pi,
                   imageIDsStr, imageRefCount, linkVars, intakeVars, archive, toVisit, enumOrder, stack,
                   loadedMap, legacyCreated, squashVars>>

\* the repositories mapping is exhausted: legacyLoad returns nil
LegacyFinish ==
    /\ pc = "legacy_tags"
    /\ pc' = "done"
    /\ result' = "ok"
    /\ tmpDir' = RemoveScratch(tmpDir)
    /\ UNCHANGED <<storeVars, loads, out, held, regCalls, errSeen, spLog, created, callItems,
                   mismatch, layerCountBad, manifestVars, linkVars, intakeVars, legacyVars, squashVars>>

NextLegacy ==
    \/ \E arch \in LegacyArchives, fail \in LoadFailures : LoadLegacy(arch, fail)
    \/ \E d \in 1..MaxDirs : LegacyNextDir(d)
    \/ LegacyEntry
    \/ LegacyLoop
    \/ \E actual \in DiffIDs, fail \in LegacyFailures : LegacyBuild(actual, fail)
    \/ \E openOK \in BOOLEAN : LegacyRepositories(openOK)
    \/ \E ref \in Tags \cup {InvalidTag}, oldID \in 1..(MaxDirs + 1), addOK \in BOOLEAN :
          LegacyTag(ref, oldID, addOK)
    \/ LegacyFinish

SpecLegacy == Init /\ [][NextLegacy]_vars

\* ------------------------------------------------------------------ Load, single-blob path
\* DiffID of the synthetic content.tar whose one entry holds the hash of blob b
SquashDiffID(b) == MaxDiff + b

\* ls.Store().GetCacheID(chain): the storage key of a layer
CacheIDOf(chain) == 2 * chain + 1

\* loadSquashFS returns: the release deferred at its end runs when it was reached
ReturnSquash(res, store, dfr, hld) ==
    /\ pc' = "done"
    /\ result' = res
    /\ tmpDir' = RemoveScratch(tmpDir)
    /\ ls' = ReleaseAll(store, dfr)
    /\ held' = RemoveAll(hld, dfr)
    /\ deferred' = <<>>
    /\ rootFS' = <<>>
    /\ squashLayer' = NoDigest

\* the status pairs of the graph driver; the value 0 is the empty string
StatusPairs == [key : {"Root Dir", "Backing Filesystem"}, value : 0..1]
DriverStatuses == SeqsUpTo(StatusPairs, MaxStatus)

\* root as the loop over the status pairs leaves it
RootDirAnyKey(status) == IF status = <<>> THEN 0 ELSE Last(status).value
RECURSIVE RootDir(_)
RootDir(status) ==
    IF status = <<>> THEN 0
    ELSE IF Last(status).key = "Root Dir" THEN Last(status).value
    ELSE RootDir(Front(status))

SquashFailures == {"none", "tempdir", "create", "copy"}

\* Load peeks the magic bytes and calls loadSquashFS, which finds the root directory,
\* copies the stream to the temporary blob file and writes content.tar; a failure
\* after os.Create leaves the temporary file behind
LoadSquashFS(b, status, fail) ==
    /\ pc \in {"idle", "done"}
    /\ loads < MaxLoads
    /\ loads' = loads + 1
    /\ out' = <<>> /\ held' = <<>> /\ regCalls' = 0 /\ errSeen' = FALSE /\ spLog' = <<>>
    /\ created' = <<>> /\ callItems' = 0 /\ mismatch' = FALSE /\ layerCountBad' = FALSE
    /\ renamed' = FALSE
    /\ squashLayer' = NoDigest
    /\ deferred' = <<>>
    /\ driverStatus' = IF fail = "tempdir" THEN driverStatus ELSE status
    /\ IF RootDir(status) = 0 \/ fail # "none"
       THEN /\ pc' = "done"
            /\ result' = "err"
            /\ tmpDir' = IF fail = "tempdir" THEN FALSE ELSE RemoveScratch(TRUE)
            /\ tmpBlob' = (tmpBlob \/ (RootDir(status) # 0 /\ fail = "copy"))
            /\ UNCHANGED <<blob, rootFS>>
       ELSE /\ pc' = "squash_layer"
            /\ result' = "none"
            /\ tmpDir' = TRUE
            /\ blob' = b
            /\ tmpBlob' = TRUE
            /\ rootFS' = <<NoDigest>>
    /\ UNCHANGED <<storeVars, itemsRead, tagsSet, img, ti, imgID, parentLinks, validated, pi,
                   imageIDsStr, imageRefCount, linkVars, intakeVars, legacyVars, blobDir>>

\* the layer of the synthetic archive: Get by ChainID, or loadLayer
SquashLayer(regOK) ==
    /\ pc = "squash_layer"
    /\ LET diffID == SquashDiffID(blob)
           chain == CreateChainID(Append(rootFS, diffID))
           found == LayerGet(ls, chain)
           parent == CreateChainID(rootFS)
       IN  IF ~found /\ ~regOK
           THEN /\ ReturnSquash("err", ls, deferred, held)
                /\ errSeen' = TRUE
                /\ regCalls' = regCalls + 1
                /\ UNCHANGED out
           ELSE /\ ls' = IF found THEN Retain(ls, chain) ELSE Register(ls, parent, diffID)
                /\ squashLayer' = IF found THEN chain ELSE RegisteredChain(parent, diffID)
                /\ held' = Append(held, IF found THEN chain ELSE RegisteredChain(parent, diffID))
                /\ regCalls' = IF found THEN regCalls ELSE regCalls + 1
                /\ out' = out \o << <<"diffID", diffID>>, <<"chainID", chain>>,
                                    <<"layer", squashLayer'>> >>
                /\ pc' = "squash_rename"
                /\ UNCHANGED <<result, tmpDir, errSeen, deferred, rootFS>>
    /\ UNCHANGED <<is, rs, loads, spLog, created, callItems, mismatch, layerCountBad, itemsRead, tagsSet, img,
                   ti, imgID, parentLinks, validated, pi, imageIDsStr, imageRefCount,
                   linkVars, intakeVars, legacyVars, driverStatus, blob, tmpBlob, blobDir, renamed>>

\* GetCacheID of the layer, and the rename of the temporary blob file
SquashRename(cacheOK, renameOK) ==
    /\ pc = "squash_rename"
    /\ LET chain == SquashDiffID(blob)
       IN  IF ~cacheOK \/ chain \notin DOMAIN ls
           THEN /\ ReturnSquash("err", ls, deferred, held)
                /\ errSeen' = TRUE
                /\ UNCHANGED <<out, tmpBlob, blobDir, renamed>>
           ELSE /\ out' = Append(out, <<"destination", CacheIDOf(chain)>>)
                /\ tmpBlob' = ~renameOK
                /\ blobDir' = IF renameOK THEN blobDir \cup {CacheIDOf(chain)} ELSE blobDir
                /\ renamed' = renameOK
                /\ errSeen' = (errSeen \/ ~renameOK)
                /\ deferred' = Append(deferred, squashLayer)
                /\ pc' = "squash_image"
                /\ UNCHANGED <<result, tmpDir, ls, held, rootFS, squashLayer>>
    /\ UNCHANGED <<is, rs, loads, regCalls, spLog, created, callItems, mismatch, layerCountBad, itemsRead,
                   tagsSet, img, ti, imgID, parentLinks, validated, pi, imageIDsStr,
                   imageRefCount, linkVars, intakeVars, legacyVars, driverStatus, blob>>

\* DiffID check, the image record and its "Loaded image ID" line
SquashImage(createOK) ==
    /\ pc = "squash_image"
    /\ LET diffID == SquashDiffID(blob)
           config == [diffIDs |-> Append(rootFS, diffID), history |-> <<>>]
       IN  IF ~DiffIDMatches(diffID, ls[squashLayer].diffID) \/ ~createOK
           THEN /\ ReturnSquash("err", ls, deferred, held)
                /\ errSeen' = (errSeen \/ DiffIDMatches(diffID, ls[squashLayer].diffID))
                /\ UNCHANGED <<is, out, created>>
           ELSE /\ is' = Create(is, config)
                /\ created' = Append(created, ImageDigest(config))
                /\ out' = Append(out, <<"Loaded image ID", ImageDigest(config)>>)
                /\ ReturnSquash("ok", ls, deferred, held)
                /\ UNCHANGED errSeen
    /\ UNCHANGED <<rs, loads, regCalls, spLog, callItems, mismatch, layerCountBad, itemsRead, tagsSet, img, ti,
                   imgID, parentLinks, validated, pi, imageIDsStr, imageRefCount, linkVars, intakeVars,
                   legacyVars, driverStatus, blob, tmpBlob, blobDir, renamed>>

NextSquash ==
    \/ \E b \in 1..MaxBlobs, status \in DriverStatuses, fail \in SquashFailures :
          LoadSquashFS(b, status, fail)
    \/ \E regOK \in BOOLEAN : SquashLayer(regOK)
    \/ \E cacheOK \in BOOLEAN, renameOK \in BOOLEAN : SquashRename(cacheOK, renameOK)
    \/ \E createOK \in BOOLEAN : SquashImage(createOK)

SpecSquash == Init /\ [][NextSquash]_vars

\* ------------------------------------------------------------------ Load, all three paths
\* one Load call, by whichever loader, from the stores as they start
NextLoad ==
    \/ \E fail \in LoadFailures : loads = 0 /\ LoadManifest(fail)
    \/ \E arch \in LegacyArchives, fail \in LoadFailures : loads = 0 /\ LoadLegacy(arch, fail)
    \/ \E b \in 1..MaxBlobs, status \in DriverStatuses, fail \in SquashFailures :
          loads = 0 /\ LoadSquashFS(b, status, fail)
    \/ \E nLayers \in 0..MaxLayers, config \in Configs, readOK \in BOOLEAN :
          ManifestItem(nLayers, config, readOK)
    \/ \E actual \in DiffIDs, pathOK \in BOOLEAN, regOK \in BOOLEAN :
          ManifestLayer(actual, pathOK, regOK)
    \/ \E createOK \in BOOLEAN : ManifestCreate(createOK)
    \/ \E repoTag \in Tags \cup {InvalidTag}, addOK \in BOOLEAN : ManifestTag(repoTag, addOK)
    \/ \E parent \in {NoDigest} \cup ConfigIDs : ManifestItemEnd(parent)
    \/ ManifestValidate
    \/ \E setOK \in BOOLEAN : ManifestSetParent(setOK)
    \/ ManifestFinish
    \/ \E d \in 1..MaxDirs : LegacyNextDir(d)
    \/ LegacyEntry
    \/ LegacyLoop
    \/ \E actual \in DiffIDs, fail \in LegacyFailures : LegacyBuild(actual, fail)
    \/ \E openOK \in BOOLEAN : LegacyRepositories(openOK)
    \/ \E ref \in Tags \cup {InvalidTag}, oldID \in 1..(MaxDirs + 1), addOK \in BOOLEAN :
          LegacyTag(ref, oldID, addOK)
    \/ LegacyFinish
    \/ \E regOK \in BOOLEAN : SquashLayer(regOK)
    \/ \E cacheOK \in BOOLEAN, renameOK \in BOOLEAN : SquashRename(cacheOK, renameOK)
    \/ \E createOK \in BOOLEAN : SquashImage(createOK)

SpecLoad == Init /\ [][NextLoad]_vars

\* ------------------------------------------------------------------ archive intake
\* the squashfs magic, "hsqs"
Magic == <<104, 115, 113, 115>>
Bytes == {104, 113, 115}

Streams == UNION {[1..n -> Bytes] : n \in 0..MaxStream}

Min(a, b) == IF a <= b THEN a ELSE b

\* bufio.Reader.Peek(n) after the buffer was filled up to `upto` bytes of the source:
\* the first n buffered bytes, fewer (with an error) when the source ends before
PeekBytes(src, upto, n) == SubSeq(src, 1, Min(n, upto))

\* bytes.Compare(b, magic) == 0
IsSquashFS(b) == b = Magic

\* bufferedReadCloser.Read(p), len(p) = n: bufio hands out what it holds, and asks the
\* source (which delivers k bytes) only when it holds nothing
ReadPastBuffer(src, pos, pending, n, k) ==
    [data |-> SubSeq(src, pos + 1, Min(Len(src), pos + Min(n, k))),
     buf |-> pending,
     pos |-> Min(Len(src), pos + Min(n, k))]
BufferedRead(src, pos, pending, n, k) ==
    IF pending # <<>>
    THEN [data |-> SubSeq(pending, 1, Min(n, Len(pending))),
          buf |-> SubSeq(pending, Min(n, Len(pending)) + 1, Len(pending)),
          pos |-> pos]
    ELSE [data |-> SubSeq(src, pos + 1, pos + Min(n, k)),
          buf |-> SubSeq(src, pos + Min(n, k) + 1, pos + k),
          pos |-> pos + k]

InitStream ==
    /\ InitStores /\ InitCall("peek") /\ InitManifest /\ InitLinks /\ InitLegacy /\ InitSquash
    /\ stream \in Streams
    /\ srcPos = 0 /\ buf = <<>> /\ got = <<>> /\ route = "none"

\* reader.Peek(4) and the dispatch on its result; bufio has then taken `upto` bytes
IntakePeek(upto) ==
    /\ pc = "peek"
    /\ upto >= Min(4, Len(stream)) /\ upto <= Len(stream)
    /\ buf' = SubSeq(stream, 1, upto)
    /\ srcPos' = upto
    /\ route' = IF Len(PeekBytes(stream, upto, 4)) < 4 THEN "error"
                ELSE IF IsSquashFS(PeekBytes(stream, upto, 4)) THEN "single-blob"
                ELSE "structured"
    /\ pc' = IF Len(PeekBytes(stream, upto, 4)) < 4 THEN "done" ELSE "read"
    /\ result' = IF Len(PeekBytes(stream, upto, 4)) < 4 THEN "err" ELSE "none"
    /\ tmpDir' = IF Len(PeekBytes(stream, upto, 4)) < 4 THEN RemoveScratch(tmpDir) ELSE tmpDir
    /\ UNCHANGED <<storeVars, loads, out, held, regCalls, errSeen, spLog, created, callItems,
                   mismatch, layerCountBad, manifestVars, linkVars, legacyVars, squashVars,
                   stream, got>>

\* one Read of the loader the stream went to (io.Copy in loadSquashFS, Untar otherwise)
IntakeRead(n, k) ==
    /\ pc = "read"
    /\ buf # <<>> \/ srcPos < Len(stream)
    /\ k <= Max(1, Len(stream) - srcPos)
    /\ buf = <<>> => k <= Len(stream) - srcPos
    /\ LET r == BufferedRead(stream, srcPos, buf, n, k)
       IN  /\ got' = got \o r.data
           /\ buf' = r.buf
           /\ srcPos' = r.pos
    /\ UNCHANGED <<storeVars, callVars, manifestVars, linkVars, legacyVars, squashVars,
                   stream, route>>

\* the source is at its end and bufio holds nothing: Read returns io.EOF
IntakeEOF ==
    /\ pc = "read"
    /\ buf = <<>> /\ srcPos = Len(stream)
    /\ pc' = "eof"
    /\ UNCHANGED <<storeVars, result, tmpDir, loads, out, held, regCalls, errSeen, spLog, created,
                   callItems, mismatch, layerCountBad, manifestVars, linkVars, legacyVars,
                   squashVars, intakeVars>>

NextIntake ==
    \/ \E upto \in 0..MaxStream : IntakePeek(upto)
    \/ \E n \in 1..MaxRead, k \in 1..MaxRead : IntakeRead(n, k)
    \/ IntakeEOF

SpecIntake == InitStream /\ [][NextIntake]_vars

\* ------------------------------------------------------------------ properties
Range(s) == {s[i] : i \in 1..Len(s)}

\* C1: once a layer obtained for a position of a manifest item reported a DiffID other
\* than the one the item's config claims there, the Load call has returned an error, no
\* image record was created for that item (only the items before it have one) and no
\* later item was read.
C1_IntegrityAborts ==
    mismatch => /\ pc = "done"
                /\ result = "err"
                /\ Len(created) = callItems - 1

C1_Witness == mismatch /\ pc = "done" /\ callItems = 2 /\ Len(created) = 1

\* C3: validatedParentLinks returns a batch of the same length with the same ids in the
\* same order; a link keeps its parentID exactly when another link of the batch has that
\* id and the parentID is not the link's own id, and otherwise its parentID is empty.
\* [{A,B},{B,""},{C,Z}] gives [{A,B},{B,""},{C,""}].
ExampleBatch ==
    << [id |-> 1, parentID |-> 2], [id |-> 2, parentID |-> NoDigest],
       [id |-> 3, parentID |-> 4] >>
ExampleValidated ==
    << [id |-> 1, parentID |-> 2], [id |-> 2, parentID |-> NoDigest],
       [id |-> 3, parentID |-> NoDigest] >>

C3_ValidatorIsFilter ==
    pc = "linked" =>
        /\ Len(ret) = Len(pl)
        /\ \A i \in 1..Len(pl) :
              /\ ret[i].id = pl[i].id
              /\ ret[i].parentID =
                    IF /\ pl[i].parentID # pl[i].id
                       /\ \E j \in (1..Len(pl)) \ {i} : pl[j].id = pl[i].parentID
                    THEN pl[i].parentID
                    ELSE NoDigest
        /\ (pl = ExampleBatch => ret = ExampleValidated)

C3_Witness == pc = "linked" /\ pl = ExampleBatch /\ ret = ExampleValidated

\* C4: every parent edge a manifest load committed through SetParent is the declared
\* parent of the manifest item it was committed for and points to an image created by
\* the same call; an item whose declared parent is not the id of an image of the batch
\* gets no edge, its image exists, and its link is passed over without failing the load.
BatchIDs == {parentLinks[i].id : i \in 1..Len(parentLinks)}

C4_EdgesInv ==
    /\ \A k \in 1..Len(spLog) :
          /\ spLog[k].item \in 1..Len(parentLinks)
          /\ spLog[k].id = parentLinks[spLog[k].item].id
          /\ spLog[k].parentID = parentLinks[spLog[k].item].parentID
          /\ spLog[k].parentID \in Range(created)
    /\ \A i \in 1..Len(parentLinks) :
          parentLinks[i].parentID \notin BatchIDs =>
              /\ parentLinks[i].id \in DOMAIN is
              /\ \A k \in 1..Len(spLog) : spLog[k].item # i

C4_DroppedSilently ==
    (/\ pc = "parents"
     /\ pi < Len(validated)
     /\ parentLinks[pi + 1].parentID \notin BatchIDs)
        => (pc' = "parents" /\ result' = "none" /\ pi' = pi + 1 /\ is' = is)

C4_EdgesStayInBatch == [](C4_EdgesInv) /\ [][C4_DroppedSilently]_vars

C4_Witness ==
    /\ pc = "done" /\ result = "ok"
    /\ Len(parentLinks) = 2
    /\ parentLinks[1].parentID \notin BatchIDs \cup {NoDigest}
    /\ parentLinks[2].parentID = parentLinks[1].id
    /\ Len(spLog) = 1

\* C5: at a layer position whose ChainID (of the claimed DiffIDs up to that position)
\* the layer store already holds, the manifest loader makes no Register call and the
\* set of layers in the store stays as it was; so a call that finds every chain of its
\* items in the store registers nothing.
C5_NoRegisterWhenFound ==
    (/\ pc = "layer"
     /\ CreateChainID(Append(rootFS, img.diffIDs[Len(rootFS) + 1])) \in DOMAIN ls)
        => (regCalls' = regCalls /\ DOMAIN ls' = DOMAIN ls)

C5_Dedup == [][C5_NoRegisterWhenFound]_vars

C5_Witness ==
    /\ loads = 2
    /\ pc = "create"
    /\ Len(rootFS) = 2
    /\ regCalls = 0
    /\ Len(held) = 2

\* C9: whenever a collaborator operation returned an error to a load call (layer
\* register, image create, tag add, set-parent), the call has returned a failure and
\* did nothing more; a failing tag add is not passed over.
C9_ErrorsAbort == errSeen => (pc = "done" /\ result = "err")

\* C10: a successful manifest load wrote the accumulated "Loaded image ID" lines exactly
\* when no repo tag was set for any item of the batch.
IDLinesWritten == \E i \in 1..Len(out) : out[i][1] = "Loaded image ID"

C10_IDLinesIffNoTags ==
    (pc = "done" /\ result = "ok" /\ imageIDsStr # <<>>) => (IDLinesWritten <=> tagsSet = 0)

\* C2: when a load call has returned, by any path and with any result, no layer
\* reference it obtained from the layer store through Get or Register is still held.
C2_ReleasedOnReturn == pc = "done" => held = <<>>

\* C6: a legacy load never recurses without end: no legacy id is being resolved twice
\* on the call stack, and the calls never pile up to the depth at which the runtime
\* ends the process instead of returning.
C6_LegacyTerminates ==
    /\ pc # "crashed"
    /\ \A i, j \in 1..Len(stack) : stack[i].oldID = stack[j].oldID => i = j

\* C7: in whatever order the directories are enumerated, a legacy image with a parent
\* gets its record after its parent's, its RootFS is the parent's DiffIDs plus one,
\* and its history is as long as its depth in the parent chain; a root image has one
\* DiffID and one history entry.
RECURSIVE Depth(_, _)
Depth(x, fuel) ==
    IF fuel = 0 \/ x \notin DOMAIN archive THEN 0
    ELSE IF archive[x] = NoDigest THEN 1
    ELSE 1 + Depth(archive[x], fuel - 1)

C7_ParentFirst ==
    \A k \in 1..Len(legacyCreated) :
        LET x == legacyCreated[k].oldID
            image == is[legacyCreated[k].id]
        IN  IF archive[x] = NoDigest
            THEN Len(image.diffIDs) = 1 /\ Len(image.history) = 1
            ELSE /\ \E j \in 1..(k - 1) :
                       /\ legacyCreated[j].oldID = archive[x]
                       /\ Front(image.diffIDs) = is[legacyCreated[j].id].diffIDs
                 /\ Len(image.history) = Depth(x, MaxDirs + 1)

C7_Witness ==
    /\ pc = "done" /\ result = "ok"
    /\ archive = <<2, 3, NoDigest>>
    /\ enumOrder = <<1, 3, 2>>
    /\ [k \in 1..Len(legacyCreated) |-> legacyCreated[k].oldID] = <<3, 2, 1>>
    /\ Len(is[loadedMap[1]].history) = 3

\* C8: a successful single-blob load created exactly one image, whose RootFS holds
\* exactly one DiffID, the one of the synthetic archive, and the temporary blob file
\* was renamed to the layer's storage key; no success without the rename.
C8_SquashSuccess ==
    (pc = "done" /\ result = "ok" /\ blob # 0) =>
        /\ Len(created) = 1
        /\ is[created[1]].diffIDs = <<SquashDiffID(blob)>>
        /\ renamed
        /\ CacheIDOf(SquashDiffID(blob)) \in blobDir

\* C11: a manifest item whose number of layer paths differs from the number of DiffIDs
\* of its config makes Load return an error at once: reading the item gets or registers
\* no layer and creates no image record, and the call ends with an image record for
\* each item before it and none for this one.
C11_StopsAtItem ==
    (~layerCountBad /\ layerCountBad')
        => /\ pc' = "done" /\ result' = "err"
           /\ regCalls' = regCalls
           /\ DOMAIN ls' = DOMAIN ls
           /\ \A c \in DOMAIN ls : ls'[c].refs <= ls[c].refs
           /\ is' = is
           /\ created' = created

C11_LayerCountAborts ==
    /\ [](layerCountBad => (pc = "done" /\ result = "err" /\ Len(created) = callItems - 1))
    /\ [][C11_StopsAtItem]_vars

C11_Witness == layerCountBad /\ pc = "done" /\ callItems = 2 /\ Len(created) = 1

\* C12: a legacy load sets tags only once every directory has been processed and
\* resolved, each tag it sets points to the image id the id map holds for the legacy id
\* the repositories entry names, and an entry naming a legacy id that was never resolved
\* makes the load return an error.
C12_TagSetFromMap ==
    (rs' # rs)
        => /\ pc = "legacy_tags"
           /\ toVisit = {} /\ stack = <<>>
           /\ DOMAIN archive \subseteq DOMAIN loadedMap
           /\ tagTarget' \in DOMAIN loadedMap
           /\ \E ref \in DOMAIN rs' :
                 /\ rs'[ref] = loadedMap[tagTarget']
                 /\ \A o \in DOMAIN rs' \ {ref} : o \in DOMAIN rs /\ rs'[o] = rs[o]

C12_LegacyTags ==
    /\ []((tagTarget # NoDigest /\ tagTarget \notin DOMAIN loadedMap)
             => (pc = "done" /\ result = "err"))
    /\ [][C12_TagSetFromMap]_vars

C12_Witness ==
    /\ pc = "done" /\ result = "ok"
    /\ Len(enumOrder) = 2
    /\ \E ref \in DOMAIN rs : rs[ref] = loadedMap[tagTarget]

\* C13 (as claimed): after the peek the Read calls return the whole stream from byte 0,
\* nothing lost and nothing twice; the stream goes to the single-blob loader exactly
\* when its first 4 bytes are the magic, and every other stream is unpacked as a tar.
Unread == SubSeq(stream, srcPos + 1, Len(stream))

C13_Replayable ==
    /\ got \o buf \o Unread = stream
    /\ pc = "eof" => got = stream

C13_IntakeAsClaimed ==
    /\ C13_Replayable
    /\ route # "none" =>
          route = IF Len(stream) >= 4 /\ SubSeq(stream, 1, 4) = Magic
                  THEN "single-blob" ELSE "structured"

\* C13 (amended): the same for every stream of at least 4 bytes; a stream that ends
\* before its fourth byte makes Load return the error of the peek, and it is neither
\* handed to the single-blob loader nor unpacked.
C13_Intake ==
    /\ C13_Replayable
    /\ route # "none" =>
          route = IF Len(stream) < 4 THEN "error"
                  ELSE IF SubSeq(stream, 1, 4) = Magic THEN "single-blob"
                  ELSE "structured"
    /\ route = "error" => (pc = "done" /\ result = "err" /\ got = <<>>)

C13_Witness ==
    /\ pc = "eof"
    /\ route = "single-blob"
    /\ Len(stream) = MaxStream
    /\ got = stream

\* C14: a single-blob load that finds no "Root Dir" pair with a value in the driver's
\* status returns an error at once: no temporary blob file is created, no layer is got
\* or registered, no image is created, and the stores and the blob directory are as
\* they were.
NoRootDir(status) ==
    \A i \in 1..Len(status) : status[i].key = "Root Dir" => status[i].value = 0

C14_FailsUntouched ==
    (loads' = loads + 1 /\ NoRootDir(driverStatus'))
        => /\ pc' = "done" /\ result' = "err"
           /\ tmpBlob' = tmpBlob /\ blobDir' = blobDir
           /\ ls' = ls /\ is' = is /\ rs' = rs
           /\ regCalls' = 0 /\ held' = <<>> /\ created' = <<>>

C14_NoRootDirFails == [][C14_FailsUntouched]_vars

C14_Witness ==
    /\ loads = 2 /\ pc = "done" /\ result = "err"
    /\ Len(driverStatus) = 1 /\ NoRootDir(driverStatus)
    /\ DOMAIN is # {} /\ blobDir # {} /\ ~tmpBlob

\* C15: the scratch directory of a Load call exists while the call runs and is gone
\* once the call has returned, whichever loader ran and whatever it returned.
C15_ScratchRemoved ==
    /\ Returned => ~tmpDir
    /\ pc \in {"item", "layer", "create", "tag", "parents", "legacy_dirs", "legacy_image",
               "legacy_tags", "squash_layer", "squash_rename", "squash_image"} => tmpDir

C15_Witness ==
    /\ Returned /\ result = "err" /\ ~tmpDir
    /\ legacyCreated # <<>>
    /\ held # <<>>

\* C16: in the manifest loader the layer references taken for an item are released once
\* that item's image record is created: none is still held when the loop turns to a
\* later item or when the parent edges are committed
C16_ReleasedAtCreate ==
    (pc \in {"item", "parents"} /\ created # <<>>) => held = <<>>

\* C17: the single-blob loader looks a layer up, registers it and resolves its storage key
\* under one chain identity, the DiffID of the synthetic archive, so a blob whose layer
\* is in the store is found by the lookup and register is not called again
C17_OneChainIdentity ==
    [][(pc = "squash_layer" /\ SquashDiffID(blob) \in DOMAIN ls) =>
          /\ CreateChainID(Append(rootFS, SquashDiffID(blob))) = SquashDiffID(blob)
          /\ regCalls' = regCalls]_vars

\* C18: at the parent-commit phase an edge is committed only when the parent is
\* structurally valid (both histories empty, or the child's history is the parent's
\* followed by exactly one entry); for any other edge setParentID fails, SetParent is
\* not called and the load returns the error
StructurallyValid(childHist, parentHist) ==
    \/ childHist = <<>> /\ parentHist = <<>>
    \/ /\ Len(childHist) = Len(parentHist) + 1
       /\ SubSeq(childHist, 1, Len(parentHist)) = parentHist

C18_CommitOnlyValid ==
    [][(pc = "parents" /\ pi < Len(validated) /\ validated[pi + 1].parentID # NoDigest) =>
          LET p == validated[pi + 1]
              valid == StructurallyValid(is[p.id].history, is[p.parentID].history)
          IN  /\ (is' # is \/ spLog' # spLog) => valid
              /\ ~valid => (pc' = "done" /\ result' = "err" /\ is' = is /\ spLog' = spLog)]_vars

C18_Witness ==
    /\ pc = "done" /\ result = "ok" /\ spLog # <<>>
    /\ Len(is[spLog[1].id].history) = 2
    /\ is[spLog[1].id].parent = spLog[1].parentID

\* C19: in the manifest loader the validator runs once, after the loop over the
\* manifest; no SetParent happens before the image record of the last item is created;
\* the surviving edges are committed in manifest order; and a load in which an item
\* fails commits no edge at all
ItemPhase == pc \in {"item", "layer", "create", "tag"}

C19_CommitPhaseInv ==
    /\ ItemPhase => spLog = <<>>
    /\ spLog # <<>> =>
          /\ Len(created) = callItems
          /\ Len(parentLinks) = callItems
          /\ \A k \in 1..Len(spLog) :
                /\ parentLinks[spLog[k].item] = [id |-> spLog[k].id, parentID |-> spLog[k].parentID]
                /\ \A j \in 1..(k - 1) : spLog[j].item < spLog[k].item
    /\ (pc = "parents" /\ pi > 0) => validated = validatedParentLinks(parentLinks)

C19_CommitPhase ==
    /\ []C19_CommitPhaseInv
    /\ [][/\ ItemPhase => (spLog' = <<>> /\ \A id \in DOMAIN is : is'[id].parent = is[id].parent)
          /\ pc = "parents" => (pc' \in {"parents", "done"} /\ parentLinks' = parentLinks)
          /\ (pc = "parents" /\ pc' = "parents") => validated' = validated]_vars

C19_Witness ==
    /\ pc = "done" /\ result = "ok"
    /\ Len(spLog) = 1 /\ spLog[1].item = 2
    /\ is[spLog[1].id].parent = spLog[1].parentID

\* C20: within one legacy load every legacy id is resolved at most once (one layer
\* registration, one image record), whatever the order of the directories and however
\* many children name it as parent; an id enters the map only after its image record
\* is created, its layer reference released and its parent edge set, so every value of
\* the map is the id of a created image
CreatedOldIDs == {legacyCreated[k].oldID : k \in 1..Len(legacyCreated)}

C20_MemoInv ==
    /\ \A j, k \in 1..Len(legacyCreated) :
          legacyCreated[j].oldID = legacyCreated[k].oldID => j = k
    /\ pc \in {"legacy_dirs", "legacy_image", "legacy_tags"} =>
          /\ regCalls = Len(legacyCreated)
          /\ held = <<>>
          /\ DOMAIN loadedMap = CreatedOldIDs
    /\ regCalls <= Len(legacyCreated) + 1
    /\ \A o \in DOMAIN loadedMap :
          /\ \E k \in 1..Len(legacyCreated) :
                legacyCreated[k] = [oldID |-> o, id |-> loadedMap[o]]
          /\ loadedMap[o] \in DOMAIN is
          /\ is[loadedMap[o]].parent =
                (IF archive[o] = NoDigest THEN NoDigest ELSE loadedMap[archive[o]])

C20_Memoized ==
    /\ []C20_MemoInv
    /\ [][regCalls' # regCalls =>
            /\ pc = "legacy_image"
            /\ regCalls' = regCalls + 1
            /\ Top.oldID \notin CreatedOldIDs]_vars

C20_Witness ==
    /\ pc = "legacy_dirs" /\ toVisit = {}
    /\ archive = <<0, 1, 1>>
    /\ enumOrder[1] = 2
    /\ DOMAIN loadedMap = {1, 2, 3}
    /\ regCalls = 3

====
